---- MODULE Spec2Model ----
(***************************************************************************)
(* Model of the UDP sink of src/sinks/util/udp.rs: the four-state          *)
(* resolve-then-send machine (UdpSink::poll_inner), the futures-0.1 Sink   *)
(* adapter (start_send / poll_complete) and the exponential backoff that   *)
(* paces DNS retries.                                                      *)
(*                                                                         *)
(* One action models one whole call of the Sink interface.  The outcomes   *)
(* of the polls a call makes (the lookup future, the delay future) and of  *)
(* send_to belong to the environment and are drawn nondeterministically.   *)
(***************************************************************************)
EXTENDS Integers, Sequences, FiniteSets, TLC

\* ---------------------------------------------------------------- bounds
\* Offer() calls explored in one behaviour.
MaxCalls == 4
\* Lookups the environment lets fail in one behaviour (8 failures are
\* needed for the delay to reach the ceiling).
MaxFailures == 9
\* Lookups the environment lets fail within one call (a further failure in
\* the same call needs the timer just armed to have elapsed already).
MaxBurst == 3
\* Turns of the loop counted within one call of the turn-by-turn
\* specification; the count stops there.
MaxTurns == 6

\* ------------------------------------------------------- configuration
\* The endpoint a complete address names: a host name that needs the
\* resolver, or an IP literal, and the port.
host == "example.invalid"
literal == "127.0.0.1"
port == 9999

\* The address strings of UdpSinkConfig, by what http::Uri makes of them:
\* whether the string parses at all, and the host and the port it holds
\* (<<>> when the string has none).
Addresses ==
  [wellformed : BOOLEAN, host : {<<>>, <<host>>, <<literal>>}, port : {<<>>, <<port>>}]

\* The answers of the resolver: an ordered sequence of IP addresses,
\* possibly empty.
Answers == {<<>>, <<"ip4">>, <<"ip6">>, <<"ip4", "ip6">>, <<"ip6", "ip4">>}

\* Payloads are byte strings.
Payloads == {<<104, 105>>, <<0>>}

\* SocketAddr::new(ip, port)
SocketAddr(ip, p) == [ip |-> ip, port |-> p]
NoAddr == [ip |-> "none", port |-> 0]

\* ---------------------------------------------------------- enum State
Initializing == [tag |-> "Initializing", addr |-> NoAddr, delay |-> 0]
ResolvingDns(h) == [tag |-> "ResolvingDns", addr |-> NoAddr, delay |-> 0]
ResolvedDns(a) == [tag |-> "ResolvedDns", addr |-> a, delay |-> 0]
Backoff(d) == [tag |-> "Backoff", addr |-> NoAddr, delay |-> d]

\* ------------------------------------------------------------- backoff
\* ExponentialBackoff::from_millis(2).factor(250).max_delay(60 s); all
\* durations are in milliseconds.  from_millis(base) sets current = base.
fresh_backoff == [current |-> 2, base |-> 2, factor |-> 250, max_delay |-> 60000]

\* self.backoff.next().unwrap(): the iterator of tokio_retry.  The delay is
\* current * factor; when that exceeds max_delay the ceiling is returned and
\* the cursor is left alone, otherwise the cursor is multiplied by base.
\* (The saturating arms of checked_mul are out of reach: the cursor stops
\* growing once current * factor passes the ceiling.)
next_delay_NoCeiling(b) ==
  [backoff |-> [b EXCEPT !.current = b.current * b.base],
   delay |-> b.current * b.factor]

\* Variant: each delay is the previous delay times the factor.
next_delay_Compound(b) ==
  LET duration == b.current * b.factor IN
  IF duration > b.max_delay
    THEN [backoff |-> b, delay |-> b.max_delay]
    ELSE [backoff |-> [b EXCEPT !.current = duration], delay |-> duration]

next_delay(b) ==
  LET duration == b.current * b.factor IN
  IF duration > b.max_delay
    THEN [backoff |-> b, delay |-> b.max_delay]
    ELSE [backoff |-> [b EXCEPT !.current = b.current * b.base], delay |-> duration]

\* next_delay01 arms a timer for the next backoff delay and boxes it as a
\* futures-0.1 future that never errs.  delays is the history of the delays
\* armed so far.
next_delay01(m) ==
  LET n == next_delay(m.backoff) IN
  [m |-> [m EXCEPT !.backoff = n.backoff, !.delays = Append(@, n.delay)],
   timer |-> n.delay]

\* -------------------------------------------------------- construction
\* UdpSinkConfig::prepare: parse the address, take host and port out of it.
\* The `?` on each step returns the error at once.
Failure(e) == [err |-> e, host |-> "", port |-> 0, binds |-> 0]

prepare(addr) ==
  IF ~addr.wellformed THEN Failure("InvalidUri")
  ELSE IF addr.host = <<>> THEN Failure("MissingHost")
  ELSE IF addr.port = <<>> THEN Failure("MissingPort")
  ELSE [err |-> "none", host |-> Head(addr.host), port |-> Head(addr.port),
        binds |-> 0]

\* IntoUdpSink::into_sink = UdpSink::new: bind the socket to 0.0.0.0:0; the
\* environment decides whether the bind succeeds.
NoSocket == [local |-> NoAddr]

into_sink(udp, bindOk) ==
  [err |-> IF bindOk THEN "none" ELSE "SocketBind",
   host |-> udp.host, port |-> udp.port, binds |-> udp.binds + 1,
   socket |-> IF bindOk THEN [local |-> SocketAddr("0.0.0.0", 0)] ELSE NoSocket]

\* Variant: the socket is bound before the address is looked at.
build_BindFirst(addr, bindOk) ==
  LET udp == prepare(addr) IN
  IF udp.err # "none"
    THEN [udp EXCEPT !.binds = 1] @@ [socket |-> [local |-> SocketAddr("0.0.0.0", 0)]]
    ELSE into_sink(udp, bindOk)

\* UdpSinkConfig::build: prepare, then into_sink.
build(addr, bindOk) ==
  LET udp == prepare(addr) IN
  IF udp.err # "none" THEN udp @@ [socket |-> NoSocket]
                      ELSE into_sink(udp, bindOk)

\* ---------------------------------------------------------- poll_inner
\* The sink as poll_inner sees it is a record m:
\*   host, port             the endpoint the sink was built with
\*   state, backoff         the fields of UdpSink that change
\*   lookups                calls of resolver.lookup_ip_01 so far
\*   failures, successes    lookups completed with error/no address, and
\*                          with at least one address
\*   failed                 how the last failed lookup ended: "Err", "Empty"
\*   answer                 the addresses of the lookup that succeeded
\*   delays, elapsed        delays armed so far, timers seen elapsed
\*   path                   the transitions of the call in progress
\*
\* Outcomes of dns.poll(): still pending, an error, or an ordered answer.
LookupOutcomes ==
  {[kind |-> "NotReady", addrs |-> <<>>], [kind |-> "Err", addrs |-> <<>>]}
    \cup {[kind |-> "Ready", addrs |-> a] : a \in Answers}

\* resolver.lookup_ip_01(host): the lookup of an IP literal needs no query
\* and is ready at its first poll with that address; the lookup of a name
\* can end in any outcome.
lookup_ip_01(h) ==
  IF h = literal THEN {[kind |-> "Ready", addrs |-> <<h>>]} ELSE LookupOutcomes

IsFailure(o) == o.kind = "Err" \/ (o.kind = "Ready" /\ o.addrs = <<>>)

\* Outcomes of delay.poll(); the boxed future maps the delay to Ok, so the
\* Err arm of the match is unreachable.
TimerOutcomes == {"NotReady", "Ready"}

\* Every arm yields the sink after the arm and what the loop does next:
\* "Continue" (assign self.state and loop), or return NotReady / Ready(addr).
Arm(m, ret, addr) == [m |-> m, ret |-> ret, addr |-> addr]

\* Variant: the call returns once the lookup is started.
OnInitializing_Yield(m) ==
  Arm([m EXCEPT !.state = ResolvingDns(m.host), !.lookups = @ + 1],
      "NotReady", NoAddr)

\* State::Initializing => State::ResolvingDns(lookup_ip_01(host))
OnInitializing(m) ==
  Arm([m EXCEPT !.state = ResolvingDns(m.host), !.lookups = @ + 1],
      "Continue", NoAddr)

\* Variant: a lookup error is returned to the caller instead of backed off.
OnResolvingDns_SurfaceErr(m, o) ==
  CASE o.kind = "Ready" /\ o.addrs # <<>> ->
         Arm([m EXCEPT !.state = ResolvedDns(SocketAddr(Head(o.addrs), m.port)),
                       !.successes = @ + 1,
                       !.answer = o.addrs],
             "Continue", NoAddr)
    [] o.kind = "NotReady" ->
         Arm(m, "NotReady", NoAddr)
    [] OTHER ->
         Arm([m EXCEPT !.failures = @ + 1], "Err", NoAddr)

\* Variant: an empty answer starts the backoff over.
OnResolvingDns_EmptyRestarts(m, o) ==
  CASE o.kind = "Ready" /\ o.addrs # <<>> ->
         Arm([m EXCEPT !.state = ResolvedDns(SocketAddr(Head(o.addrs), m.port)),
                       !.successes = @ + 1,
                       !.answer = o.addrs],
             "Continue", NoAddr)
    [] o.kind = "Ready" /\ o.addrs = <<>> ->
         LET d == next_delay01([m EXCEPT !.failures = @ + 1, !.failed = "Empty",
                                         !.backoff = fresh_backoff]) IN
         Arm([d.m EXCEPT !.state = Backoff(d.timer)], "Continue", NoAddr)
    [] o.kind = "NotReady" ->
         Arm(m, "NotReady", NoAddr)
    [] o.kind = "Err" ->
         LET d == next_delay01([m EXCEPT !.failures = @ + 1, !.failed = "Err"]) IN
         Arm([d.m EXCEPT !.state = Backoff(d.timer)], "Continue", NoAddr)

\* Variant: a successful resolution resets the backoff.
OnResolvingDns_ResetOnSuccess(m, o) ==
  CASE o.kind = "Ready" /\ o.addrs # <<>> ->
         Arm([m EXCEPT !.state = ResolvedDns(SocketAddr(Head(o.addrs), m.port)),
                       !.successes = @ + 1,
                       !.answer = o.addrs,
                       !.backoff = fresh_backoff],
             "Continue", NoAddr)
    [] o.kind = "NotReady" ->
         Arm(m, "NotReady", NoAddr)
    [] OTHER ->
         LET d == next_delay01([m EXCEPT !.failures = @ + 1,
                                  !.failed = IF o.kind = "Err" THEN "Err" ELSE "Empty"]) IN
         Arm([d.m EXCEPT !.state = Backoff(d.timer)], "Continue", NoAddr)

\* Variant: the last address of the answer is taken.
OnResolvingDns_LastAddr(m, o) ==
  CASE o.kind = "Ready" /\ o.addrs # <<>> ->
         Arm([m EXCEPT !.state = ResolvedDns(SocketAddr(o.addrs[Len(o.addrs)], m.port)),
                       !.successes = @ + 1,
                       !.answer = o.addrs],
             "Continue", NoAddr)
    [] o.kind = "NotReady" ->
         Arm(m, "NotReady", NoAddr)
    [] OTHER ->
         LET d == next_delay01([m EXCEPT !.failures = @ + 1,
                                  !.failed = IF o.kind = "Err" THEN "Err" ELSE "Empty"]) IN
         Arm([d.m EXCEPT !.state = Backoff(d.timer)], "Continue", NoAddr)

\* State::ResolvingDns(dns) => match dns.poll()
OnResolvingDns(m, o) ==
  CASE o.kind = "Ready" /\ o.addrs # <<>> ->
         LET addr == SocketAddr(Head(o.addrs), m.port) IN
         Arm([m EXCEPT !.state = ResolvedDns(addr),
                       !.successes = @ + 1,
                       !.answer = o.addrs],
             "Continue", NoAddr)
    [] o.kind = "Ready" /\ o.addrs = <<>> ->
         LET d == next_delay01([m EXCEPT !.failures = @ + 1, !.failed = "Empty"]) IN
         Arm([d.m EXCEPT !.state = Backoff(d.timer)], "Continue", NoAddr)
    [] o.kind = "NotReady" ->
         Arm(m, "NotReady", NoAddr)
    [] o.kind = "Err" ->
         LET d == next_delay01([m EXCEPT !.failures = @ + 1, !.failed = "Err"]) IN
         Arm([d.m EXCEPT !.state = Backoff(d.timer)], "Continue", NoAddr)

\* Variant: the resolver is asked again on every poll of a resolved sink.
OnResolvedDns_Relookup(m) ==
  Arm([m EXCEPT !.lookups = @ + 1], "Ready", m.state.addr)

\* State::ResolvedDns(addr) => return Ok(Async::Ready(addr))
OnResolvedDns(m) == Arm(m, "Ready", m.state.addr)

\* Variant: an elapsed timer ends the call; the lookup waits for the next.
OnBackoff_ReturnOnElapsed(m, o) ==
  CASE o = "NotReady" -> Arm(m, "NotReady", NoAddr)
    [] o = "Ready" ->
         Arm([m EXCEPT !.state = Initializing, !.elapsed = @ + 1],
             "NotReady", NoAddr)

\* Variant: a pending timer is dropped and the lookup started again.
OnBackoff_PendingRestart(m, o) ==
  CASE o = "NotReady" -> Arm([m EXCEPT !.state = Initializing], "Continue", NoAddr)
    [] o = "Ready" ->
         Arm([m EXCEPT !.state = Initializing, !.elapsed = @ + 1],
             "Continue", NoAddr)

\* Variant: the loop polls a pending timer again instead of returning.
OnBackoff_BusyWait(m, o) ==
  CASE o = "NotReady" -> Arm(m, "Continue", NoAddr)
    [] o = "Ready" ->
         Arm([m EXCEPT !.state = Initializing, !.elapsed = @ + 1],
             "Continue", NoAddr)

\* Variant: an elapsed timer is not acted on.
OnBackoff_Stuck(m, o) == Arm(m, "NotReady", NoAddr)

\* State::Backoff(delay) => match delay.poll()
OnBackoff(m, o) ==
  CASE o = "NotReady" -> Arm(m, "NotReady", NoAddr)
    [] o = "Ready" ->
         Arm([m EXCEPT !.state = Initializing, !.elapsed = @ + 1],
             "Continue", NoAddr)

\* One turn of the loop: the arms the environment makes possible, each with
\* the transition appended to the path of the call (a lookup that ends in an
\* error or in no address is logged as "Failed").  The environment lets at
\* most MaxFailures lookups fail, at most MaxBurst of them in one call.
Logged(m, out, a) ==
  [a EXCEPT !.m.path =
     Append(@, [from |-> m.state.tag, out |-> out, to |-> a.m.state.tag])]

Failed(path) == Cardinality({i \in DOMAIN path : path[i].out = "Failed"})

Turn(m) ==
  CASE m.state.tag = "Initializing" ->
         {Logged(m, "start", OnInitializing(m))}
    [] m.state.tag = "ResolvingDns" ->
         {Logged(m, IF IsFailure(o) THEN "Failed" ELSE o.kind,
                 OnResolvingDns(m, o)) :
            o \in {x \in lookup_ip_01(m.host) :
                     IsFailure(x) => /\ m.failures < MaxFailures
                                     /\ Failed(m.path) < MaxBurst}}
    [] m.state.tag = "ResolvedDns" ->
         {Logged(m, "cached", OnResolvedDns(m))}
    [] m.state.tag = "Backoff" ->
         {Logged(m, o, OnBackoff(m, o)) : o \in TimerOutcomes}

\* fn poll_inner: loop until an arm returns.  The result is the set of the
\* returns the call can make, one for each run of poll outcomes.
RECURSIVE poll_inner(_)
poll_inner(m) ==
  UNION {IF a.ret = "Continue" THEN poll_inner(a.m) ELSE {a} : a \in Turn(m)}

\* ---------------------------------------------------------- impl Sink
\* self.socket.send_to(&line, address): the environment decides whether the
\* send succeeds; a successful send hands one datagram to the network.
send_to(buf, address, ok) ==
  [ok |-> ok,
   out |-> IF ok THEN <<[bytes |-> buf, to |-> address]>> ELSE <<>>]

\* fn start_send, after poll_inner returned a.  result is what the caller
\* gets: "accepted" = Ok(AsyncSink::Ready), "deferred" =
\* Ok(AsyncSink::NotReady(line)) with the payload in carried, "fatal" =
\* Err(()); poll_inner never returns Err, that arm is unreachable!().
Return(m, result, carried, sends, out) ==
  [m |-> m, result |-> result, carried |-> carried, sends |-> sends, out |-> out]

\* Variant: a failed send throws the cached address away.
start_send_Reresolve(a, line, ok) ==
  CASE a.ret = "Ready" ->
         LET s == send_to(line, a.addr, ok) IN
         IF s.ok THEN Return(a.m, "accepted", <<>>, 1, s.out)
                 ELSE Return([a.m EXCEPT !.state = Initializing],
                             "fatal", <<>>, 1, s.out)
    [] a.ret = "NotReady" -> Return(a.m, "deferred", <<line>>, 0, <<>>)
    [] OTHER -> Return(a.m, "panic", <<>>, 0, <<>>)

\* Variant: a failed send is backed off and retried like a failed lookup.
start_send_BackoffOnSendError(a, line, ok) ==
  CASE a.ret = "Ready" ->
         LET s == send_to(line, a.addr, ok) IN
         IF s.ok THEN Return(a.m, "accepted", <<>>, 1, s.out)
                 ELSE LET d == next_delay01(a.m) IN
                      Return([d.m EXCEPT !.state = Backoff(d.timer)],
                             "deferred", <<line>>, 1, s.out)
    [] a.ret = "NotReady" -> Return(a.m, "deferred", <<line>>, 0, <<>>)
    [] OTHER -> Return(a.m, "panic", <<>>, 0, <<>>)

\* Variant: a failed send is swallowed.
start_send_AcceptOnError(a, line, ok) ==
  CASE a.ret = "Ready" ->
         LET s == send_to(line, a.addr, ok) IN
         Return(a.m, "accepted", <<>>, 1, s.out)
    [] a.ret = "NotReady" -> Return(a.m, "deferred", <<line>>, 0, <<>>)
    [] OTHER -> Return(a.m, "panic", <<>>, 0, <<>>)

\* Variant: the payload handed back with NotReady is not the one passed in.
start_send_EmptyDeferred(a, line, ok) ==
  CASE a.ret = "Ready" ->
         LET s == send_to(line, a.addr, ok) IN
         IF s.ok THEN Return(a.m, "accepted", <<>>, 1, s.out)
                 ELSE Return(a.m, "fatal", <<>>, 1, s.out)
    [] a.ret = "NotReady" -> Return(a.m, "deferred", <<(<<>>)>>, 0, <<>>)
    [] OTHER -> Return(a.m, "panic", <<>>, 0, <<>>)

\* Variant: a payload is taken while the address is not known yet.
start_send_DropDeferred(a, line, ok) ==
  CASE a.ret = "Ready" ->
         LET s == send_to(line, a.addr, ok) IN
         IF s.ok THEN Return(a.m, "accepted", <<>>, 1, s.out)
                 ELSE Return(a.m, "fatal", <<>>, 1, s.out)
    [] a.ret = "NotReady" -> Return(a.m, "accepted", <<>>, 0, <<>>)
    [] OTHER -> Return(a.m, "panic", <<>>, 0, <<>>)

start_send(a, line, ok) ==
  CASE a.ret = "Ready" ->
         LET s == send_to(line, a.addr, ok) IN
         IF s.ok THEN Return(a.m, "accepted", <<>>, 1, s.out)
                 ELSE Return(a.m, "fatal", <<>>, 1, s.out)
    [] a.ret = "NotReady" -> Return(a.m, "deferred", <<line>>, 0, <<>>)
    [] OTHER -> Return(a.m, "panic", <<>>, 0, <<>>)

\* Variant: flushing drives the resolution like start_send does.
poll_complete_Drive(m) ==
  IF m.state.tag = "Initializing"
    THEN [m |-> [m EXCEPT !.state = ResolvingDns(m.host), !.lookups = @ + 1],
          result |-> "ready"]
    ELSE [m |-> m, result |-> IF m.state.tag = "ResolvedDns" THEN "ready" ELSE "NotReady"]

\* fn poll_complete: Ok(Async::Ready(())), nothing else.
poll_complete(m) == [m |-> m, result |-> "ready"]

\* ---------------------------------------------------------------- state
VARIABLES
  address,    \* UdpSinkConfig.address
  built,      \* how build() ended: "none" before it, "ok", or the error
  binds,      \* calls of UdpSocket::bind
  endpoint,   \* UdpSink.host and UdpSink.port
  state,      \* UdpSink.state
  backoff,    \* UdpSink.backoff
  socket,     \* UdpSink.socket: the local address it is bound to
  wire,       \* datagrams handed to the network, in order
  lookups,    \* lookups started
  failures,   \* lookups completed with an error or no address
  successes,  \* lookups completed with at least one address
  failed,     \* how the last failed lookup ended: "Err" or "Empty"
  answer,     \* the addresses of the lookup that succeeded
  delays,     \* the delays armed, in order
  elapsed,    \* timers seen elapsed
  calls,      \* offer() calls made
  results,    \* how many offers returned accepted / deferred / fatal
  last,       \* the last call: arguments, outcome, sink before and after poll
  offered,    \* the payloads offered, a deferred payload counted once
  prev,       \* the result and payload of the last offer()
  protocolOK, \* the caller has kept to the one-in-flight protocol so far
  \* The call in progress, for the turn-by-turn specification:
  pc,         \* "idle" between calls, "polling" inside poll_inner
  line,       \* the payload of the call in progress or of the last call
  turns,      \* loop turns since the call began or last found a timer it
              \* armed itself elapsed
  armed,      \* the timer of the Backoff state was armed in this call
  spun,       \* the last turn found a timer armed in this call elapsed
  outcome,    \* what the last offer() returned
  sent        \* send_to calls made by the last offer()

vars == <<address, built, binds, endpoint, state, backoff, socket, wire, lookups, failures, successes, failed, answer,
          delays, elapsed, calls, results, last, offered, prev, protocolOK,
          pc, line, turns, armed, spun, outcome, sent>>

\* The variables of the call in progress, and the histories that only the
\* call-by-call specification keeps.
callvars == <<pc, line, turns, armed, spun, outcome, sent>>
histvars == <<wire, lookups, failures, delays, elapsed, calls, results, last,
              offered, prev, protocolOK>>

\* The sink as a record, with an empty path.
Sink ==
  [host |-> endpoint.host, port |-> endpoint.port,
   state |-> state, backoff |-> backoff, lookups |-> lookups,
   failures |-> failures, successes |-> successes, failed |-> failed,
   answer |-> answer,
   delays |-> delays, elapsed |-> elapsed, path |-> <<>>]

Store(m) ==
  /\ state' = m.state
  /\ backoff' = m.backoff
  /\ lookups' = m.lookups
  /\ failures' = m.failures
  /\ successes' = m.successes
  /\ failed' = m.failed
  /\ answer' = m.answer
  /\ delays' = m.delays
  /\ elapsed' = m.elapsed

\* UdpSinkConfig::new(address): a configuration and no sink yet.  The fields
\* of the sink hold the values UdpSink::new gives them.
Init ==
  /\ address \in Addresses
  /\ built = "none"
  /\ binds = 0
  /\ endpoint = [host |-> "", port |-> 0]
  /\ state = Initializing
  /\ backoff = fresh_backoff
  /\ socket = NoSocket
  /\ wire = <<>>
  /\ lookups = 0
  /\ failures = 0
  /\ successes = 0
  /\ failed = "none"
  /\ answer = <<>>
  /\ delays = <<>>
  /\ elapsed = 0
  /\ calls = 0
  /\ results = [accepted |-> 0, deferred |-> 0, fatal |-> 0, panic |-> 0]
  /\ last = [op |-> "none", payload |-> <<>>, result |-> "none",
             carried |-> <<>>, sends |-> 0, sendOk |-> FALSE, ret |-> "none",
             addr |-> NoAddr, pre |-> Sink, polled |-> Sink, wire |-> <<>>]
  /\ offered = <<>>
  /\ prev = [result |-> "none", payload |-> <<>>]
  /\ protocolOK = TRUE
  /\ pc = "idle"
  /\ line = <<>>
  /\ turns = 0
  /\ armed = FALSE
  /\ spun = FALSE
  /\ outcome = "none"
  /\ sent = 0

\* build(): UdpSink::new gives state Initializing, a fresh backoff and a
\* socket bound to the wildcard address and an ephemeral port.
Build ==
  /\ built = "none"
  /\ \E bindOk \in BOOLEAN :
       LET r == build(address, bindOk) IN
       /\ built' = (IF r.err = "none" THEN "ok" ELSE r.err)
       /\ binds' = r.binds
       /\ endpoint' = [host |-> r.host, port |-> r.port]
       /\ socket' = r.socket
  /\ state' = Initializing
  /\ backoff' = fresh_backoff
  /\ UNCHANGED <<address, wire, lookups, failures, successes, failed, answer,
                 delays, elapsed, calls, results, last, offered, prev,
                 protocolOK, callvars>>

\* The caller keeps to the protocol when it re-offers the identical payload
\* after deferred and offers a new payload only after accepted (or first).
Reoffer(p) == prev.result = "deferred" /\ prev.payload = p
KeepsProtocol(p) == Reoffer(p) \/ prev.result \in {"none", "accepted"}

\* offer(p): one call of start_send, with the polls and the send it makes.
Offer(p) ==
  /\ built = "ok"
  /\ calls < MaxCalls
  /\ \E a \in poll_inner(Sink), ok \in BOOLEAN :
       LET r == start_send(a, p, ok) IN
       /\ Store(r.m)
       /\ wire' = wire \o r.out
       /\ results' = [results EXCEPT ![r.result] = @ + 1]
       /\ last' = [op |-> "offer", payload |-> p, result |-> r.result,
                   carried |-> r.carried, sends |-> r.sends,
                   sendOk |-> (r.sends > 0 /\ ok), ret |-> a.ret,
                   addr |-> a.addr, pre |-> Sink, polled |-> a.m,
                   wire |-> wire]
       /\ prev' = [result |-> r.result, payload |-> p]
  /\ calls' = calls + 1
  /\ offered' = IF Reoffer(p) THEN offered ELSE Append(offered, p)
  /\ protocolOK' = (protocolOK /\ KeepsProtocol(p))
  /\ UNCHANGED <<address, built, binds, endpoint, socket, callvars>>

\* flush(): one call of poll_complete.
Flush ==
  /\ built = "ok"
  /\ LET r == poll_complete(Sink) IN
       /\ Store(r.m)
       /\ last' = [op |-> "flush", payload |-> <<>>, result |-> r.result,
                   carried |-> <<>>, sends |-> 0, sendOk |-> FALSE,
                   ret |-> "none", addr |-> NoAddr, pre |-> Sink,
                   polled |-> r.m, wire |-> wire]
  /\ UNCHANGED <<address, built, binds, endpoint, socket, wire, calls, results,
                 offered, prev, protocolOK, callvars>>

Next == Build \/ (\E p \in Payloads : Offer(p)) \/ Flush

Spec == Init /\ [][Next]_vars

\* ------------------------------------------- turn-by-turn specification
\* The same calls, one turn of the loop of poll_inner per step, so that a
\* call that does not return is a behaviour.  The state of the sink is
\* finite; the unbounded histories (histvars) are not kept.  The caller
\* keeps offering, and offers the payload it got back after deferred.
Begin(p) ==
  /\ built = "ok"
  /\ pc = "idle"
  /\ outcome = "deferred" => p = line
  /\ pc' = "polling"
  /\ line' = p
  /\ turns' = 0
  /\ armed' = FALSE
  /\ spun' = FALSE
  /\ sent' = 0
  /\ UNCHANGED <<address, built, binds, endpoint, socket, state, backoff,
                 successes, failed, answer, outcome, histvars>>

Count(n) == IF n < MaxTurns THEN n + 1 ELSE n

\* A turn a that assigns self.state and loops.  The turn armed a timer when
\* it added a delay, and found the timer elapsed when it counted it so.
LoopOn(a) ==
  /\ pc = "polling"
  /\ a.ret = "Continue"
  /\ state' = a.m.state
  /\ backoff' = a.m.backoff
  /\ successes' = a.m.successes
  /\ failed' = a.m.failed
  /\ answer' = a.m.answer
  /\ armed' = IF Len(a.m.delays) > Len(delays) THEN TRUE
              ELSE (armed /\ a.m.state.tag = "Backoff")
  /\ spun' = (armed /\ a.m.elapsed > elapsed)
  /\ turns' = IF spun' THEN 0 ELSE Count(turns)
  /\ UNCHANGED <<address, built, binds, endpoint, socket, pc, line, outcome,
                 sent, histvars>>

Loop == \E a \in Turn(Sink) : LoopOn(a)

\* A turn that returns from poll_inner, and the rest of start_send.
Finish ==
  /\ pc = "polling"
  /\ \E a \in Turn(Sink), ok \in BOOLEAN :
       /\ a.ret # "Continue"
       /\ LET r == start_send(a, line, ok) IN
            /\ state' = r.m.state
            /\ backoff' = r.m.backoff
            /\ successes' = r.m.successes
            /\ failed' = r.m.failed
            /\ answer' = r.m.answer
            /\ outcome' = r.result
            /\ sent' = r.sends
  /\ pc' = "idle"
  /\ turns' = Count(turns)
  /\ spun' = FALSE
  /\ UNCHANGED <<address, built, binds, endpoint, socket, line, armed,
                 histvars>>

\* The turn that finds the backoff timer elapsed.
TimerElapsed == \E a \in Turn(Sink) : a.m.elapsed > elapsed /\ LoopOn(a)

NextStep == Build \/ (\E p \in Payloads : Begin(p)) \/ Loop \/ Finish

\* The caller keeps calling offer(), a call in progress keeps running, and
\* a timer that is polled again and again is eventually found elapsed.
SpecStep ==
  /\ Init /\ [][NextStep]_vars
  /\ WF_vars(\E p \in Payloads : Begin(p))
  /\ WF_vars(Loop \/ Finish)
  /\ SF_vars(TimerElapsed)

\* ================================================================ claims
\* The ceiling of the backoff, in milliseconds.
CeilingMs == 60000

IsOffer == last.op = "offer"
Bytes(w) == [i \in DOMAIN w |-> w[i].bytes]
Front(q) == SubSeq(q, 1, Len(q) - 1)

\* C1: ResolvedDns is terminal.  Once the state is ResolvedDns(a), no call
\* (offer or flush, whatever the outcome of its send_to) changes the state:
\* it stays ResolvedDns(a) with the same address.
C1_ResolvedTerminal ==
  [][state.tag = "ResolvedDns" => state' = state]_vars

\* C1 witness: the sink was resolved before the last call, sends have both
\* failed and succeeded since, and it is still resolved.
C1_Witness ==
  /\ state.tag = "ResolvedDns"
  /\ last.pre.state = state
  /\ results.fatal >= 1
  /\ results.accepted >= 1

\* C2: when the first lookup completes with at least one address, the
\* resolver is invoked exactly once, however many offers follow.
C2_SingleLookup ==
  (successes >= 1 /\ failures = 0) => lookups = 1

\* C2 witness: the first lookup succeeded and three further offers were made.
C2_Witness ==
  /\ successes = 1 /\ failures = 0 /\ lookups = 1
  /\ last.pre.state.tag = "ResolvedDns"
  /\ calls >= 3

\* C3: an offer(p) that finds the lookup or the backoff timer still pending
\* returns deferred carrying exactly p and performs no send_to.
C3_DeferredCarriesPayload ==
  (IsOffer /\ last.ret = "NotReady") =>
     /\ state.tag \in {"ResolvingDns", "Backoff"}
     /\ last.result = "deferred"
     /\ last.carried = <<last.payload>>
     /\ last.sends = 0
     /\ wire = last.wire

\* C3 witness: an offer deferred on a pending timer, after an earlier one
\* deferred on a pending lookup.
C3_Witness ==
  /\ IsOffer /\ last.result = "deferred" /\ last.payload = <<104, 105>>
  /\ state.tag = "Backoff"
  /\ last.pre.state.tag = "ResolvingDns"
  /\ results.deferred >= 2

\* C4: when send_to fails inside offer(), offer() returns fatal and nothing
\* is retried: one send_to in the call, and after it the state is still
\* ResolvedDns with the address sent to, no lookup was started, no timer
\* armed and the backoff cursor is where poll_inner left it.
C4_SendFailureNotRetried ==
  (IsOffer /\ last.sends >= 1 /\ ~last.sendOk) =>
     /\ last.result = "fatal"
     /\ last.sends = 1
     /\ state = ResolvedDns(last.addr)
     /\ state = last.polled.state
     /\ lookups = last.polled.lookups
     /\ backoff = last.polled.backoff
     /\ delays = last.polled.delays
     /\ wire = last.wire

\* C4 witness: a send failed in a call that also resolved the address, after
\* an earlier backoff.
C4_Witness ==
  /\ IsOffer /\ last.result = "fatal" /\ last.sends = 1
  /\ last.pre.state.tag # "ResolvedDns"
  /\ failures >= 1

\* C5 as stated: once some offer() has returned fatal, every later offer()
\* returns fatal too.
C5_FatalRecurs ==
  (results.fatal >= 1 /\ IsOffer) => last.result = "fatal"

\* C5 amended: a failed send makes that offer() return fatal and leaves no
\* trace in the sink; every later offer() attempts one send_to on the cached
\* address and returns fatal if that send fails, accepted if it succeeds,
\* never deferred.
C5_FatalPerSend ==
  (results.fatal >= 1 /\ IsOffer) =>
     /\ state.tag = "ResolvedDns"
     /\ last.sends = 1
     /\ last.result = (IF last.sendOk THEN "accepted" ELSE "fatal")

\* C5 witness: an offer is accepted after an earlier one returned fatal.
C5_Witness ==
  results.fatal >= 1 /\ IsOffer /\ last.result = "accepted"

\* C6: resolution failure is never surfaced.  offer() returns fatal only in
\* a call in which send_to was attempted and failed; while no lookup has
\* produced an address, every offer() has returned deferred.
C6_ResolutionNeverFatal ==
  /\ (IsOffer /\ last.result = "fatal") => (last.sends = 1 /\ ~last.sendOk)
  /\ results.panic = 0
  /\ successes = 0 =>
       /\ results.fatal = 0
       /\ results.accepted = 0
       /\ results.deferred = calls

\* C6 witness: three lookups failed over three offers, none succeeded.
C6_Witness ==
  /\ successes = 0 /\ failures >= 3 /\ calls >= 3
  /\ IsOffer /\ last.result = "deferred"

\* C7: every resolution failure (error or empty answer) moves the state to
\* Backoff and arms a timer; the delays armed are non-decreasing and never
\* exceed the 60-second ceiling.
C7_DelaysBounded ==
  /\ Len(delays) = failures
  /\ \A i \in DOMAIN delays : delays[i] <= CeilingMs
  /\ \A i, j \in DOMAIN delays : i <= j => delays[i] <= delays[j]
  /\ \A i \in DOMAIN last.polled.path :
       last.polled.path[i].out = "Failed" => last.polled.path[i].to = "Backoff"
  /\ state.tag = "Backoff" => (failures >= 1 /\ state.delay = delays[Len(delays)])

\* C7 witness: nine consecutive failures, the last an empty answer; the
\* delays grew from 500 ms and the last two are at the ceiling.
C7_Witness ==
  /\ failures >= 9 /\ successes = 0 /\ failed = "Empty"
  /\ delays[1] = 500
  /\ delays[7] < CeilingMs
  /\ delays[8] = CeilingMs /\ delays[9] = CeilingMs
  /\ state.tag = "Backoff"

\* C8: an accepted offer has performed exactly one send_to, of the payload
\* unmodified, to the cached address (first resolved IP, configured port);
\* a deferred offer has performed none; the datagrams handed to the socket
\* are as many as the accepted results.
C8_OneDatagramPerAccepted ==
  /\ (IsOffer /\ last.result = "accepted") =>
       /\ last.sends = 1
       /\ state.addr = SocketAddr(Head(answer), port)
       /\ wire = Append(last.wire, [bytes |-> last.payload, to |-> state.addr])
  /\ (IsOffer /\ last.result = "deferred") =>
       (last.sends = 0 /\ wire = last.wire)
  /\ Len(wire) = results.accepted

\* C8 witness: two payloads accepted, the address being the first of two.
C8_Witness ==
  /\ IsOffer /\ last.result = "accepted"
  /\ Len(answer) = 2
  /\ results.accepted >= 2 /\ results.deferred >= 1

\* C9: with a caller that keeps to the protocol, the payloads transmitted
\* are the payloads offered, in offer order, none dropped, duplicated or
\* reordered: all of them once the last offer was accepted, all but the one
\* still in flight otherwise.
C9_InOrderNoLossNoDup ==
  protocolOK =>
    Bytes(wire) = (IF prev.result \in {"accepted", "none"} THEN offered
                                                          ELSE Front(offered))

\* C9 witness: two different payloads transmitted in order, after deferrals
\* on a pending lookup and on a backoff.
C9_Witness ==
  /\ protocolOK
  /\ Len(wire) >= 2 /\ wire[1].bytes # wire[2].bytes
  /\ Bytes(wire) = offered
  /\ results.deferred >= 1 /\ failures >= 1

\* C10: flush() reports ready in every resolution state and changes nothing:
\* state, backoff cursor and socket are as before, and no lookup, timer or
\* send was started.
C10_FlushIsNoOp ==
  last.op = "flush" =>
     /\ last.result = "ready"
     /\ state = last.pre.state
     /\ backoff = last.pre.backoff
     /\ socket = [local |-> SocketAddr("0.0.0.0", 0)]
     /\ lookups = last.pre.lookups
     /\ delays = last.pre.delays
     /\ elapsed = last.pre.elapsed
     /\ wire = last.wire
     /\ last.sends = 0

\* C10 witness: a flush while a backoff timer is pending.
C10_Witness ==
  last.op = "flush" /\ state.tag = "Backoff" /\ Len(delays) >= 2

\* C12: for an address that lacks a host or a port, build() fails with a
\* configuration error (the parse error when the string is no URI at all,
\* else missing host, else missing port) and no socket has been bound: bind
\* is reached only after both host and port were extracted.
C12_NoBindWithoutHostPort ==
  /\ (built # "none" /\ (address.host = <<>> \/ address.port = <<>>)) =>
       /\ built \in {"InvalidUri", "MissingHost", "MissingPort"}
       /\ address.wellformed =>
            built = (IF address.host = <<>> THEN "MissingHost" ELSE "MissingPort")
       /\ socket = NoSocket
       /\ binds = 0
  /\ binds >= 1 =>
       (address.wellformed /\ address.host # <<>> /\ address.port # <<>>)

\* C12 witness: a well-formed address with a host and no port was built.
C12_Witness ==
  /\ built = "MissingPort" /\ address.host = <<host>> /\ address.port = <<>>
  /\ binds = 0 /\ socket = NoSocket

Min(a, b) == IF a <= b THEN a ELSE b

RECURSIVE Pow(_, _)
Pow(b, n) == IF n = 0 THEN 1 ELSE b * Pow(b, n - 1)

\* C13 as stated: each delay is min(ceiling, previous delay * factor), the
\* previous delay being 2 ms before the first call: 500 ms, then 60 s.
C13_AsStated ==
  \A i \in DOMAIN delays :
    delays[i] = Min(CeilingMs,
                    (IF i = 1 THEN fresh_backoff.current ELSE delays[i - 1])
                      * fresh_backoff.factor)

\* C13 amended: the n-th delay is min(ceiling, start^n * factor): the factor
\* is applied once to each delay and the cursor grows by the start value, so
\* the delays are 500 ms, 1 s, 2 s, 4 s, 8 s, 16 s, 32 s and then 60 s.
C13_DelaySequence ==
  \A i \in DOMAIN delays :
    delays[i] = Min(CeilingMs, Pow(fresh_backoff.base, i) * fresh_backoff.factor)

\* C13 witness: the eighth failure is the first to wait the ceiling.
C13_Witness ==
  /\ Len(delays) >= 8
  /\ delays[2] = 1000 /\ delays[7] = 32000 /\ delays[8] = 60000

\* C14: a lookup that completes with no address is handled as one that
\* completes with an error: from the same state both lead to the same
\* Backoff state, timer and backoff cursor, the cursor advanced one step.
C14_EmptyLikeError ==
  /\ state.tag = "ResolvingDns" =>
       LET e == OnResolvingDns(Sink, [kind |-> "Err", addrs |-> <<>>])
           z == OnResolvingDns(Sink, [kind |-> "Ready", addrs |-> <<>>])
           n == next_delay(backoff)
       IN /\ e.ret = "Continue" /\ z.ret = "Continue"
          /\ z.m.state = e.m.state
          /\ z.m.backoff = e.m.backoff
          /\ z.m.delays = e.m.delays
          /\ z.m.failures = e.m.failures
          /\ e.m.state = Backoff(n.delay)
          /\ e.m.backoff = n.backoff
          /\ e.m.delays = Append(delays, n.delay)
          /\ e.m.failures = failures + 1
  /\ state.tag = "Backoff" =>
       /\ failed \in {"Err", "Empty"}
       /\ state = Backoff(delays[failures])

\* C14 witness: a pending lookup ended with no address in the last call,
\* after an earlier failure, and the sink is backing off.
C14_Witness ==
  /\ IsOffer /\ state.tag = "Backoff" /\ failed = "Empty"
  /\ last.pre.state.tag = "ResolvingDns"
  /\ failures >= 2

RECURSIVE Advance(_, _)
Advance(b, k) == IF k = 0 THEN b ELSE Advance(next_delay(b).backoff, k - 1)

\* C15: the backoff cursor advances once per failed lookup and is never
\* reset: after k failed lookups it is the fresh cursor advanced k times,
\* whatever resolutions, accepted sends, failed sends and flushes happened.
C15_CursorNeverReset ==
  /\ backoff = Advance(fresh_backoff, failures)
  /\ (failures = 0) = (backoff = fresh_backoff)

\* C15 witness: two failures, then a resolution, a failed send, an accepted
\* send and a flush; the cursor is where the two failures left it.
C15_Witness ==
  /\ failures = 2 /\ successes = 1
  /\ results.fatal >= 1 /\ results.accepted >= 1
  /\ last.op = "flush"
  /\ backoff.current = 8

\* C16: when a lookup completes with one or more addresses the state becomes
\* ResolvedDns(first address of the answer, configured port), whatever
\* follows the first address.
C16_FirstAddress ==
  /\ (state.tag = "ResolvedDns") = (successes >= 1)
  /\ state.tag = "ResolvedDns" =>
       /\ answer # <<>>
       /\ state.addr = SocketAddr(answer[1], endpoint.port)
       /\ endpoint.port = port

\* C16 witness: the answer was the IPv6 address followed by the IPv4 one.
C16_Witness ==
  /\ state.tag = "ResolvedDns"
  /\ answer = <<"ip6", "ip4">>
  /\ state.addr = SocketAddr("ip6", port)

\* C19: Initializing is never a resting state: after any offer() returned,
\* the state is ResolvingDns, Backoff or ResolvedDns, and a call that saw a
\* backoff timer elapsed started the next lookup before it returned.
C19_InitializingTransient ==
  /\ calls >= 1 => state.tag \in {"ResolvingDns", "Backoff", "ResolvedDns"}
  /\ \A i \in DOMAIN last.polled.path :
       LET t == last.polled.path[i] IN
       (t.from = "Backoff" /\ t.out = "Ready") =>
          /\ i < Len(last.polled.path)
          /\ last.polled.path[i + 1].out = "start"
          /\ last.polled.path[i + 1].to = "ResolvingDns"

\* C19 witness: a call found the timer elapsed and left a lookup pending.
C19_Witness ==
  /\ IsOffer /\ last.pre.state.tag = "Backoff"
  /\ state.tag = "ResolvingDns"
  /\ last.polled.path[1].out = "Ready"

PendingLookups == lookups - failures - successes
PendingTimers == Len(delays) - elapsed

\* C20: at most one wait is outstanding and lookups are paced by the timers:
\* lookups started <= 1 + timers elapsed, timers armed = lookups failed, and
\* a lookup is started only first of all or right after a timer elapsed,
\* never while a lookup or a timer is pending.
C20_LookupsPaced ==
  /\ lookups <= 1 + elapsed
  /\ Len(delays) = failures
  /\ PendingLookups \in {0, 1}
  /\ PendingTimers \in {0, 1}
  /\ PendingLookups + PendingTimers <= 1
  /\ PendingLookups = 1 <=> state.tag = "ResolvingDns"
  /\ PendingTimers = 1 <=> state.tag = "Backoff"
  /\ \A i \in DOMAIN last.polled.path :
       last.polled.path[i].out = "start" =>
         IF i = 1 THEN last.pre.state.tag = "Initializing" /\ last.pre.lookups = 0
                  ELSE /\ last.polled.path[i - 1].from = "Backoff"
                       /\ last.polled.path[i - 1].out = "Ready"

\* C20 witness: three lookups started, two timers armed and elapsed, the
\* third lookup pending.
C20_Witness ==
  /\ lookups = 3 /\ elapsed = 2 /\ Len(delays) = 2
  /\ state.tag = "ResolvingDns"

C11_AsStated == (pc = "polling") ~> (pc = "idle")

\* C11 amended: a call never waits: it returns within 4 turns of its start,
\* or of the last time it found a timer that it armed itself already
\* elapsed at the first poll; only the call that goes on finding such
\* timers elapsed keeps turning.
C11_ReturnsUnlessSpinning ==
  /\ [](turns <= 4)
  /\ (pc = "polling") ~> (pc = "idle" \/ spun)

\* C11 witness: a call that found the old timer elapsed, started a lookup,
\* got an address and sent, returning after four turns.
C11_Witness ==
  /\ pc = "idle" /\ turns = 4 /\ outcome = "accepted" /\ sent = 1
  /\ failed # "none"

\* C17: with offer() called again and again and every timer eventually
\* elapsed, every failed lookup (state Backoff) is followed by the start of
\* a new lookup (state ResolvingDns); and once a lookup has completed with
\* an address, the state is ResolvedDns and the payload of the call in
\* progress is handed to send_to.
C17_RetriesForever ==
  /\ (state.tag = "Backoff") ~> (state.tag = "ResolvingDns")
  /\ (successes >= 1 /\ pc = "polling") ~>
       (pc = "idle" /\ state.tag = "ResolvedDns" /\ sent = 1)
  /\ [](successes >= 1 => state.tag = "ResolvedDns")

\* C17 witness: after three failed lookups, the last with no address, a
\* lookup succeeded and the payload that had been deferred was accepted.
C17_Witness ==
  /\ failed = "Empty" /\ backoff.current = 16
  /\ successes = 1 /\ state.tag = "ResolvedDns"
  /\ pc = "idle" /\ outcome = "accepted" /\ sent = 1

====
